---------------------------- MODULE Spec2Model ----------------------------
(***************************************************************************)
(* A model of the inventory pager and of the confirmation protocol of the  *)
(* steam client (package steam).                                           *)
(*                                                                         *)
(* Strings that the code parses or formats are sequences of one-character  *)
(* strings, so that strconv.ParseUint, strconv.FormatUint and the          *)
(* "%d_%d" key are computed, not assumed.  The HTTP executor, the JSON     *)
(* decoder and the remote services are the environment: every answer they  *)
(* can give is an input drawn from a finite set.                           *)
(***************************************************************************)
EXTENDS Integers, Sequences, FiniteSets, TLC

VARIABLES
    pc,            \* inventory call: "idle", "loop", "done" or "panic"
    entry,         \* the exported method that was called
    filters,       \* the caller's filters, in the caller's order
    items,         \* GetFilterableInventory's accumulator
    itemPage,      \* history: for each accumulated item, the page that carried it
    startAssetID,  \* GetFilterableInventory's cursor
    requests,      \* history: the page requests issued, in order
    pageLog,       \* history: the answer to every page request, in order
    filterLog,     \* history: per asset of the last page, the filters invoked
    result,        \* what GetFilterableInventory returned
    bodies,        \* history: per page request, the response body handed back
    clock,         \* the time of the remote time oracle
    ncalls,        \* confirmation calls made so far
    earlier,       \* history: the timestamps obtained by the calls before the last
    call,          \* the last confirmation call: its arguments, steps and return
    hashIn,        \* the arguments of the last token derivation made on its own
    hashOut        \* what that derivation returned

invVars == <<pc, entry, filters, items, itemPage, startAssetID, requests,
             pageLog, filterLog, result, bodies>>

confVars == <<clock, ncalls, earlier, call>>

hashVars == <<hashIn, hashOut>>

vars == <<invVars, confVars, hashVars>>

(***************************************************************************)
(* Bounds of the model.                                                    *)
(***************************************************************************)
MaxPages == 3

MergePages == 2

MaxCalls == 2

(***************************************************************************)
(* Program constants.                                                      *)
(***************************************************************************)
CountFirst == 250

CountNext == 75

TagLimit == 32

StatusOK == 200

TimestampBytes == 8

None == [kind |-> "none"]

Nil == [kind |-> "nil"]

NoErr == [kind |-> "nil", text |-> <<>>]

(***************************************************************************)
(* strconv: decimal digits.                                                *)
(***************************************************************************)
DigitChars == <<"0", "1", "2", "3", "4", "5", "6", "7", "8", "9">>

IsDigit(c) == \E d \in 1..10 : DigitChars[d] = c

DigitVal(c) == (CHOOSE d \in 1..10 : DigitChars[d] = c) - 1

\* The digits of 2^64 - 1, the largest uint64.
MaxUint64Digits ==
    <<"1","8","4","4","6","7","4","4","0","7","3","7","0","9","5","5","1","6","1","5">>

RECURSIVE StripZeros(_)
StripZeros(s) ==
    IF s # <<>> /\ Head(s) = "0" THEN StripZeros(Tail(s)) ELSE s

RECURSIVE DigitsGreater(_, _)
\* For digit strings of equal length: a > b.
DigitsGreater(a, b) ==
    IF a = <<>> THEN FALSE
    ELSE IF DigitVal(Head(a)) # DigitVal(Head(b))
         THEN DigitVal(Head(a)) > DigitVal(Head(b))
         ELSE DigitsGreater(Tail(a), Tail(b))

\* A digit string whose value does not fit 64 bits.
ExceedsUint64(s) ==
    LET t == StripZeros(s) IN
    \/ Len(t) > Len(MaxUint64Digits)
    \/ Len(t) = Len(MaxUint64Digits) /\ DigitsGreater(t, MaxUint64Digits)

RECURSIVE DigitsValue(_)
DigitsValue(s) ==
    IF s = <<>> THEN 0
    ELSE 10 * DigitsValue(SubSeq(s, 1, Len(s) - 1)) + DigitVal(s[Len(s)])

\* strconv.ParseUint(s, 10, 64): the empty string and any character that is
\* no decimal digit are a syntax error, a value above 2^64 - 1 is a range
\* error; the scan stops at the first of the two.
ParseUint(s) ==
    LET bad  == {i \in 1..Len(s) : ~IsDigit(s[i])}
        firstBad == IF bad = {} THEN Len(s) + 1
                    ELSE CHOOSE i \in bad : \A j \in bad : i <= j
        over == {i \in 1..(firstBad - 1) : ExceedsUint64(SubSeq(s, 1, i))}
    IN  IF s = <<>>
        THEN [ok |-> FALSE, val |-> 0, err |-> [kind |-> "syntax", text |-> s]]
        ELSE IF over # {}
        THEN [ok |-> FALSE, val |-> 0, err |-> [kind |-> "range", text |-> s]]
        ELSE IF bad # {}
        THEN [ok |-> FALSE, val |-> 0, err |-> [kind |-> "syntax", text |-> s]]
        ELSE [ok |-> TRUE, val |-> DigitsValue(s), err |-> NoErr]

RECURSIVE FormatUint(_)
\* strconv.FormatUint(n, 10), and %d of an unsigned integer.
FormatUint(n) ==
    IF n < 10 THEN <<DigitChars[n + 1]>>
    ELSE FormatUint(n \div 10) \o <<DigitChars[(n % 10) + 1]>>

(***************************************************************************)
(* fetchInventory.                                                         *)
(***************************************************************************)
\* The query parameters with the page size of the first request throughout.
PageParamsOneSize(start) ==
    IF start # 0
    THEN [hasStart |-> TRUE, start_assetid |-> FormatUint(start), count |-> CountFirst]
    ELSE [hasStart |-> FALSE, start_assetid |-> <<>>, count |-> CountFirst]

\* The query parameters of one page request.
PageParams(start) ==
    IF start # 0
    THEN [hasStart |-> TRUE, start_assetid |-> FormatUint(start), count |-> CountNext]
    ELSE [hasStart |-> FALSE, start_assetid |-> <<>>, count |-> CountFirst]

\* The key without its delimiter.
DescKeyUndelimited(classID, instanceID) ==
    FormatUint(classID) \o FormatUint(instanceID)

\* The key "<CLASS_ID>_<INSTANCE_ID>" of the descriptions map.
DescKey(classID, instanceID) ==
    FormatUint(classID) \o <<"_">> \o FormatUint(instanceID)

\* The descriptions map after the loop that fills it: for each key the
\* position of the last description with that key, 0 when there is none.
DescIndex(descs, key) ==
    LET hits == {i \in 1..Len(descs) :
                    DescKey(descs[i].ClassID, descs[i].InstanceID) = key}
    IN  IF hits = {} THEN 0 ELSE CHOOSE i \in hits : \A j \in hits : j <= i

\* A pointer into the descriptions of page `page`, or nil.
DescOf(asset, descs, page) ==
    LET d == DescIndex(descs, DescKey(asset.ClassID, asset.InstanceID))
    IN  IF d # 0 THEN [kind |-> "ptr", page |-> page, idx |-> d] ELSE Nil

NewItem(asset, descs, page) ==
    [AppID |-> asset.AppID, ContextID |-> asset.ContextID,
     AssetID |-> asset.AssetID, ClassID |-> asset.ClassID,
     InstanceID |-> asset.InstanceID, Amount |-> asset.Amount,
     Desc |-> DescOf(asset, descs, page)]

\* The caller's predicates.
FilterAccepts(f, item) ==
    CASE f = "amountNonZero" -> item.Amount # 0
      [] f = "hasDesc"       -> item.Desc # Nil
      [] OTHER               -> TRUE

RECURSIVE RunFilters(_, _, _)
\* The filter loop from filter k on: whether the item is added, and the
\* positions of the filters that were invoked.
RunFilters(fs, item, k) ==
    IF k > Len(fs) THEN [add |-> TRUE, calls |-> <<>>]
    ELSE IF ~FilterAccepts(fs[k], item) THEN [add |-> FALSE, calls |-> <<k>>]
    ELSE LET rest == RunFilters(fs, item, k + 1)
         IN  [add |-> rest.add, calls |-> <<k>> \o rest.calls]

\* The filter loop without its break: every filter runs, the last one decides.
ApplyFiltersNoBreak(fs, item) ==
    [add   |-> Len(fs) = 0 \/ FilterAccepts(fs[Len(fs)], item),
     calls |-> [k \in 1..Len(fs) |-> k]]

\* The filter loop of one item.
ApplyFilters(fs, item) == RunFilters(fs, item, 1)

RECURSIVE MergePage(_, _, _, _, _)
\* The asset loop from asset k on: the items appended and the filter log.
MergePage(assets, descs, fs, page, k) ==
    IF k > Len(assets) THEN [items |-> <<>>, log |-> <<>>]
    ELSE LET item == NewItem(assets[k], descs, page)
             f    == ApplyFilters(fs, item)
             rest == MergePage(assets, descs, fs, page, k + 1)
         IN  [items |-> (IF f.add THEN <<item>> ELSE <<>>) \o rest.items,
              log   |-> <<f.calls>> \o rest.log]

NoBody == [handed |-> FALSE, closed |-> FALSE]

\* What http.Client hands back with an answer: no response with a transport
\* error; with a refused redirect a response whose body the client has
\* closed, next to the error; a response with an open body otherwise.
HandedBack(kind) ==
    CASE kind = "transport" -> NoBody
      [] kind = "redirect"  -> [handed |-> TRUE, closed |-> TRUE]
      [] OTHER              -> [handed |-> TRUE, closed |-> FALSE]

\* err != nil after client.Get or client.Do
DoFailed(kind) == kind \in {"transport", "redirect"}

\* A Close that only the return without error reaches.
CloseOnSuccess(body, err) ==
    IF err = NoErr THEN [body EXCEPT !.closed = TRUE] ELSE body

\* defer resp.Body.Close(): the body when the function returns `err`, or
\* panics.
DeferClose(body, err) == [body EXCEPT !.closed = TRUE]

\* The body of fetchInventory's response when fetchInventory returns.
InventoryBody(kind, err) ==
    LET resp == HandedBack(kind)
    IN  IF resp.handed THEN DeferClose(resp, err) ELSE resp

\* The body of the response of a confirmation request when its function
\* returns: the Close is deferred after the error check.
ConfBody(kind, err) ==
    LET resp == HandedBack(kind)
    IN  IF DoFailed(kind) THEN resp ELSE DeferClose(resp, err)

\* fetchInventory after the request was sent and answered by `out`: what it
\* returns, what it appends to *items, and whether it panics.
FetchInventoryResult(out, fs, page) ==
    LET fail(e) == [hasMore |-> FALSE, lastAssetID |-> 0, err |-> e,
                    added |-> <<>>, log |-> <<>>, panic |-> FALSE]
    IN
    IF DoFailed(out.kind) THEN fail([kind |-> "transport", text |-> <<>>])
    ELSE IF out.kind = "decode" THEN fail([kind |-> "decode", text |-> <<>>])
    ELSE IF out.Success = 0
    THEN IF Len(out.ErrorMsg) # 0
         THEN fail([kind |-> "domain", text |-> out.ErrorMsg])
         ELSE fail(NoErr)
    ELSE IF \E i \in 1..Len(out.Descriptions) : out.Descriptions[i] = Nil
    THEN [fail(NoErr) EXCEPT !.panic = TRUE]
    ELSE LET m == MergePage(out.Assets, out.Descriptions, fs, page, 1)
             p == ParseUint(out.LastAssetID)
         IN  IF out.HasMore = 0
             THEN [hasMore |-> FALSE, lastAssetID |-> 0, err |-> NoErr,
                   added |-> m.items, log |-> m.log, panic |-> FALSE]
             ELSE IF ~p.ok
             THEN [hasMore |-> TRUE, lastAssetID |-> 0, err |-> p.err,
                   added |-> m.items, log |-> m.log, panic |-> FALSE]
             ELSE [hasMore |-> TRUE, lastAssetID |-> p.val, err |-> NoErr,
                   added |-> m.items, log |-> m.log, panic |-> FALSE]

(***************************************************************************)
(* The environment of the inventory pager.                                 *)
(***************************************************************************)
Boom == <<"b", "o", "o", "m">>

Overflow64 ==
    <<"1","8","4","4","6","7","4","4","0","7","3","7","0","9","5","5","1","6","1","6">>

CursorStrings ==
    { <<>>, <<"0">>, <<"7">>, <<"0", "7">>, <<"1", "2">>, <<"x">>,
      <<"7", "x">>, Overflow64 }

Asset(id, class, instance, amount) ==
    [AppID |-> 730, ContextID |-> 2, AssetID |-> id, ClassID |-> class,
     InstanceID |-> instance, Amount |-> amount]

Desc(class, instance, name) ==
    [ClassID |-> class, InstanceID |-> instance, Name |-> name]

A1 == Asset(1, 5, 71, 1)

A2 == Asset(2, 57, 1, 0)

A3 == Asset(1, 9, 1, 2)

D1 == Desc(5, 71, "first")

D1b == Desc(5, 71, "second")

D2 == Desc(57, 1, "other")

FilterLists ==
    { <<>>, <<"amountNonZero">>, <<"amountNonZero", "hasDesc">>,
      <<"hasDesc", "amountNonZero">> }

Page(success, msg, more, last, assets, descs) ==
    [kind |-> "json", Success |-> success, ErrorMsg |-> msg, HasMore |-> more,
     LastAssetID |-> last, Assets |-> assets, Descriptions |-> descs]

TransportFailure ==
    [kind |-> "transport", Success |-> 0, ErrorMsg |-> <<>>, HasMore |-> 0,
     LastAssetID |-> <<>>, Assets |-> <<>>, Descriptions |-> <<>>]

DecodeFailure ==
    [kind |-> "decode", Success |-> 0, ErrorMsg |-> <<>>, HasMore |-> 0,
     LastAssetID |-> <<>>, Assets |-> <<>>, Descriptions |-> <<>>]

RedirectFailure == [TransportFailure EXCEPT !.kind = "redirect"]

\* Answers that exercise the cursor handling.
PagingAnswers ==
    {TransportFailure, RedirectFailure, DecodeFailure}
    \cup { Page(0, msg, more, <<"7">>, b[1], b[2]) :
             msg \in {<<>>, Boom}, more \in {0, 1},
             b \in {<< <<>>, <<>> >>, << <<A1>>, <<D1>> >>} }
    \cup { Page(1, <<>>, more, last, b[1], b[2]) :
             more \in {0, 1}, last \in CursorStrings,
             b \in {<< <<>>, <<>> >>, << <<A1>>, <<D1>> >>} }

\* Answers that exercise the merge and the filters.
MergeAnswers ==
    { Page(1, <<>>, more, <<"7">>, assets, descs) :
        more \in {0, 1},
        assets \in { <<>>, <<A1>>, <<A2, A1>>, <<A1, A3, A1>> },
        descs \in { <<>>, <<D1>>, <<D2>>, <<D1, D1b>>, <<Nil>> } }
    \cup { Page(0, <<>>, 0, <<"7">>, <<A1>>, <<D1>>) }

(***************************************************************************)
(* generateConfirmationHashForTime.                                        *)
(***************************************************************************)
Alphabet ==
    <<"a", "b", "c", "d", "e", "f", "g", "h", "i", "j", "k", "l", "m",
      "n", "o", "p", "q", "r", "s", "t", "u", "v", "w", "x", "y", "z">>

\* The byte of a character: a line feed, "#", "&" or a lower-case letter.
Ord(c) ==
    CASE c = "\n" -> 10
      [] c = "#"  -> 35
      [] c = "&"  -> 38
      [] OTHER    -> 96 + (CHOOSE i \in 1..26 : Alphabet[i] = c)

TagBytes(tag) == [i \in 1..Len(tag) |-> Ord(tag[i])]

Failure(kind, chain) == [kind |-> kind, text |-> chain]

\* fmt.Errorf("<step>: %w", err)
Wrap(step, err) == [kind |-> err.kind, text |-> <<step>> \o err.text]

\* base64.StdEncoding.DecodeString on the secrets of the model.
StdDecode(secret) ==
    CASE secret = "c2VjcmV0" -> [ok |-> TRUE, key |-> "secret"]
      [] secret = "a2V5"     -> [ok |-> TRUE, key |-> "key"]
      [] OTHER               -> [ok |-> FALSE, key |-> ""]

\* A tag that is never clipped.
ClipTagNever(tag) == tag

\* The tag that enters the buffer.
ClipTag(tag) == IF Len(tag) > TagLimit THEN SubSeq(tag, 1, TagLimit) ELSE tag

\* An int64 is kept as three limbs: its value is
\* hi * 2^48 + mid * 2^24 + lo, with lo and mid in 0..2^24-1 and hi in
\* -2^15..2^15-1 (two's complement, the sign in hi).
Limb == 16777216

\* The int64 of a number of the protocol.
Int64(n) ==
    [hi |-> IF n < 0 THEN -1 ELSE 0, mid |-> (n \div Limb) % Limb, lo |-> n % Limb]

MinInt64 == [hi |-> -32768, mid |-> 0, lo |-> 0]

MaxInt64 == [hi |-> 32767, mid |-> Limb - 1, lo |-> Limb - 1]

\* byte(timestamp & 0xFF)
LowByte(timestamp) == timestamp.lo % 256

\* timestamp >>= 8, the arithmetic shift of a signed integer.
ShiftRight8(timestamp) ==
    [hi  |-> timestamp.hi \div 256,
     mid |-> (timestamp.mid \div 256) + (timestamp.hi % 256) * 65536,
     lo  |-> (timestamp.lo \div 256) + (timestamp.mid % 256) * 65536]

RECURSIVE FillTimestampForward(_, _, _)
\* The loop writing the low byte first at offset 0.
FillTimestampForward(data, timestamp, i) ==
    IF i < 0 THEN data
    ELSE FillTimestampForward(
             [data EXCEPT ![TimestampBytes - i] = LowByte(timestamp)],
             ShiftRight8(timestamp), i - 1)

RECURSIVE FillTimestamp(_, _, _)
\* The loop "for i := 7; i >= 0; i--" on the buffer; `i` is the Go index.
FillTimestamp(data, timestamp, i) ==
    IF i < 0 THEN data
    ELSE FillTimestamp([data EXCEPT ![i + 1] = LowByte(timestamp)],
                       ShiftRight8(timestamp), i - 1)

\* The buffer that is hashed; `tag` is the clipped tag.
HashData(tag, timestamp) ==
    LET n2    == TimestampBytes + Len(tag)
        zero  == [i \in 1..n2 |-> 0]
        timed == FillTimestamp(zero, timestamp, TimestampBytes - 1)
    IN  IF tag # <<>>
        THEN [i \in 1..n2 |->
                IF i <= TimestampBytes THEN timed[i]
                ELSE TagBytes(tag)[i - TimestampBytes]]
        ELSE timed

NoToken == [alg |-> "none", key |-> "", data |-> <<>>]

\* The escaped base64 text of the HMAC-SHA1 of `data` under `key`, kept as
\* the term it is computed from: equal tokens have equal keys and buffers.
Token(key, data) == [alg |-> "hmac-sha1", key |-> key, data |-> data]

generateConfirmationHashForTime(identitySecret, tag, timestamp) ==
    LET dec == StdDecode(identitySecret) IN
    IF ~dec.ok
    THEN [token |-> NoToken,
          err |-> Failure("secret", <<"failed to decode identitySecret">>)]
    ELSE [token |-> Token(dec.key, HashData(ClipTag(tag), timestamp)),
          err |-> NoErr]

(***************************************************************************)
(* The confirmation protocol.                                              *)
(***************************************************************************)
conf == <<"c", "o", "n", "f">>

accept == <<"a", "c", "c", "e", "p", "t">>

reject == <<"r", "e", "j", "e", "c", "t">>

\* strconv.FormatInt(n, 10)
FormatInt(n) == IF n < 0 THEN <<"-">> \o FormatUint(0 - n) ELSE FormatUint(n)

NoResult == [kind |-> "nil", body |-> "none"]

NoHash == [done |-> FALSE, secret |-> "", tag |-> <<>>, timestamp |-> 0,
           token |-> NoToken]

NoRequest == [sent |-> FALSE, endpoint |-> "", op |-> "", p |-> "", a |-> "",
              k |-> NoToken, t |-> <<>>, m |-> "", tag |-> <<>>,
              cid |-> "", ck |-> ""]

NoAnswer == [kind |-> "none", status |-> 0, body |-> "none"]

NoConfirmation == [ID |-> "", Nonce |-> ""]

NoCall == [op |-> "none", secret |-> "", tag |-> <<>>, conf |-> NoConfirmation,
           timeAnswer |-> NoAnswer, answer |-> NoAnswer, steps |-> <<>>,
           gotTime |-> FALSE, timestamp |-> 0, hash |-> NoHash,
           req |-> NoRequest, result |-> NoResult, err |-> NoErr,
           bodies |-> <<>>]

\* What the oracle's clock shows at first.
FirstTime == 1700000000

DeviceID == "android:device"

SteamID64 == "76561198000000000"

\* The time oracle answers a request that reaches it with its clock.
TimeAnswers ==
    {[kind |-> k, status |-> 0, body |-> "none"] : k \in {"transport", "redirect"}}
    \cup {[kind |-> "http", status |-> st, body |-> b] :
            st \in {StatusOK, 500}, b \in {"json", "malformed"}}

\* The answers of the confirmation endpoints; "unreadable" is a body whose
\* read fails.
ConfAnswers ==
    {[kind |-> k, status |-> 0, body |-> "none"] : k \in {"transport", "redirect"}}
    \cup {[kind |-> "http", status |-> st, body |-> b] :
            st \in {StatusOK, 500}, b \in {"json", "malformed", "unreadable"}}

Secrets == {"c2VjcmV0", "a2V5", "not base64"}

Confirmations == {[ID |-> "11", Nonce |-> "n11"], [ID |-> "12", Nonce |-> "n12"]}

AjaxTags ==
    {accept, reject, <<"d", "e", "n", "y">>, <<"n", "o", "\n">>,
     <<"n", "o", "&", "o", "p">>}

\* getSteamTime served from the timestamp of the call before, when it has one.
getSteamTimeCached(answer, now) ==
    IF call.gotTime
    THEN [steps |-> <<>>, timestamp |-> call.timestamp, err |-> NoErr]
    ELSE IF DoFailed(answer.kind)
    THEN [steps |-> <<"time">>, timestamp |-> 0,
          err |-> Failure("transport", <<"failed to send request">>)]
    ELSE IF answer.status # StatusOK
    THEN [steps |-> <<"time">>, timestamp |-> 0,
          err |-> Failure("status", <<"Steam API returned status code">>)]
    ELSE IF answer.body # "json"
    THEN [steps |-> <<"time">>, timestamp |-> 0,
          err |-> Failure("decode", <<"failed to parse Steam time response">>)]
    ELSE [steps |-> <<"time">>, timestamp |-> now, err |-> NoErr]

\* getSteamTime: one POST to the time oracle, answered by `answer` when the
\* oracle's clock shows `now`.
getSteamTime(answer, now) ==
    IF DoFailed(answer.kind)
    THEN [steps |-> <<"time">>, timestamp |-> 0,
          err |-> Failure("transport", <<"failed to send request">>)]
    ELSE IF answer.status # StatusOK
    THEN [steps |-> <<"time">>, timestamp |-> 0,
          err |-> Failure("status", <<"Steam API returned status code">>)]
    ELSE IF answer.body # "json"
    THEN [steps |-> <<"time">>, timestamp |-> 0,
          err |-> Failure("decode", <<"failed to parse Steam time response">>)]
    ELSE [steps |-> <<"time">>, timestamp |-> now, err |-> NoErr]

\* The remote operation with accept and reject exchanged.
RemoteOpSwapped(tag) == IF tag = accept THEN "cancel" ELSE "allow"

\* The remote operation of SendConfirmationAjax.
RemoteOp(tag) == IF tag = accept THEN "allow" ELSE "cancel"

\* url.Parse, which http.NewRequest calls, refuses a URL that holds an ASCII
\* control character; `raw` is what Sprintf wrote into the URL unescaped.
InvalidURL(raw) == \E i \in 1..Len(raw) : Ord(raw[i]) < 32 \/ Ord(raw[i]) = 127

RECURSIVE QueryValue(_)
\* The value a query parameter has in the URL when `raw` was written after
\* its "=": the value ends at the first "&" or "#".
QueryValue(raw) ==
    IF raw = <<>> \/ Head(raw) \in {"&", "#"} THEN <<>>
    ELSE <<Head(raw)>> \o QueryValue(Tail(raw))

\* The URL of the confirmation list.
ListRequest(hash, timestamp) ==
    [sent |-> TRUE, endpoint |-> "mobileconf/getlist", op |-> "",
     p |-> DeviceID, a |-> SteamID64, k |-> hash, t |-> FormatInt(timestamp),
     m |-> "react", tag |-> conf, cid |-> "", ck |-> ""]

\* The URL of a decision.
AjaxRequest(op, hash, timestamp, tag, c) ==
    [sent |-> TRUE, endpoint |-> "mobileconf/ajaxop", op |-> op,
     p |-> DeviceID, a |-> SteamID64, k |-> hash, t |-> FormatInt(timestamp),
     m |-> "react", tag |-> QueryValue(tag), cid |-> c.ID, ck |-> c.Nonce]

\* The first two steps of every confirmation call: the timestamp, then the
\* token for `tag`.
TimeAndHash(c, secret, tag, timeAnswer, now) ==
    LET t == getSteamTime(timeAnswer, now)
        h == generateConfirmationHashForTime(secret, tag, Int64(t.timestamp))
        c1 == [c EXCEPT !.steps = t.steps, !.timeAnswer = timeAnswer,
                        !.bodies = <<ConfBody(timeAnswer.kind, t.err)>>]
    IN  IF t.err # NoErr
        THEN [c1 EXCEPT !.err = Wrap("failed to get Steam time", t.err)]
        ELSE LET c2 == [c1 EXCEPT !.gotTime = TRUE, !.timestamp = t.timestamp,
                                  !.steps = c1.steps \o <<"hash">>]
             IN  IF h.err # NoErr
                 THEN [c2 EXCEPT !.err =
                          Wrap("failed to generate confirmation hash", h.err)]
                 ELSE [c2 EXCEPT !.hash =
                          [done |-> TRUE, secret |-> secret, tag |-> tag,
                           timestamp |-> t.timestamp, token |-> h.token]]

\* FetchConfirmations and AcceptConfirmation from the request on.
ListCall(c0, answer) ==
    LET c == [c0 EXCEPT !.req = ListRequest(c0.hash.token, c0.timestamp),
                        !.steps = c0.steps \o <<"get">>, !.answer = answer]
        r == IF DoFailed(answer.kind)
             THEN [c EXCEPT !.err =
                      Failure("transport", <<"failed to execute request">>)]
             ELSE IF answer.status # StatusOK
             THEN [c EXCEPT !.err = Failure("status", <<"unexpected status code">>)]
             ELSE IF answer.body = "unreadable"
             THEN [c EXCEPT !.err = Failure("read", <<"error reading response">>)]
             ELSE IF answer.body # "json"
             THEN [c EXCEPT !.err =
                      Failure("decode", <<"error parsing response JSON">>)]
             ELSE [c EXCEPT !.result = [kind |-> "decoded", body |-> answer.body]]
    IN  [r EXCEPT !.bodies = c0.bodies \o <<ConfBody(answer.kind, r.err)>>]

\* FetchConfirmations, answered by `timeAnswer` and `answer`.
FetchConfirmationsCall(secret, timeAnswer, answer, now) ==
    LET c0 == TimeAndHash([NoCall EXCEPT !.op = "FetchConfirmations",
                                         !.secret = secret, !.tag = conf],
                          secret, conf, timeAnswer, now)
    IN  IF c0.err # NoErr THEN c0 ELSE ListCall(c0, answer)

\* An AcceptConfirmation that asks the decision endpoint to allow.
AcceptConfirmationAllows(secret, timeAnswer, answer, now) ==
    LET c0 == TimeAndHash([NoCall EXCEPT !.op = "AcceptConfirmation",
                                         !.secret = secret, !.tag = conf],
                          secret, conf, timeAnswer, now)
        c  == ListCall(c0, answer)
    IN  IF c0.err # NoErr THEN c0
        ELSE [c EXCEPT !.req.endpoint = "mobileconf/ajaxop", !.req.op = "allow"]

\* AcceptConfirmation, answered by `timeAnswer` and `answer`.
AcceptConfirmationCall(secret, timeAnswer, answer, now) ==
    LET c0 == TimeAndHash([NoCall EXCEPT !.op = "AcceptConfirmation",
                                         !.secret = secret, !.tag = conf],
                          secret, conf, timeAnswer, now)
    IN  IF c0.err # NoErr THEN c0 ELSE ListCall(c0, answer)

\* SendConfirmationAjax, answered by `timeAnswer` and `answer`.
SendConfirmationAjaxCall(c, tag, is, timeAnswer, answer, now) ==
    LET op == RemoteOp(tag)
        c0 == TimeAndHash([NoCall EXCEPT !.op = "SendConfirmationAjax",
                                         !.secret = is, !.tag = tag, !.conf = c],
                          is, tag, timeAnswer, now)
        c1 == [c0 EXCEPT !.req = AjaxRequest(op, c0.hash.token, c0.timestamp, tag, c),
                         !.steps = c0.steps \o <<"get">>, !.answer = answer]
        r  == IF DoFailed(answer.kind)
              THEN [c1 EXCEPT !.err = Failure("transport", <<>>)]
              ELSE IF answer.body = "unreadable"
              THEN [c1 EXCEPT !.err = Failure("read", <<>>)]
              ELSE IF answer.body # "json"
              THEN [c1 EXCEPT !.err = Failure("decode", <<>>)]
              ELSE [c1 EXCEPT !.result = [kind |-> "decoded", body |-> answer.body]]
    IN  IF c0.err # NoErr THEN c0
        ELSE IF InvalidURL(tag) THEN [c0 EXCEPT !.err = Failure("request", <<>>)]
        ELSE [r EXCEPT !.bodies = c0.bodies \o <<ConfBody(answer.kind, r.err)>>]

(***************************************************************************)
(* The state machine of the inventory pager.                               *)
(***************************************************************************)
Init ==
    /\ pc = "idle"
    /\ entry = "none"
    /\ filters = <<>>
    /\ items = <<>>
    /\ itemPage = <<>>
    /\ startAssetID = 0
    /\ requests = <<>>
    /\ pageLog = <<>>
    /\ filterLog = <<>>
    /\ result = None
    /\ bodies = <<>>
    /\ clock = FirstTime
    /\ ncalls = 0
    /\ earlier = {}
    /\ call = NoCall
    /\ hashIn = [secret |-> "", tag |-> <<>>, timestamp |-> Int64(0),
                 made |-> FALSE]
    /\ hashOut = [token |-> NoToken, err |-> NoErr]

\* GetFilterableInventory up to its loop.
Enter(name, fs) ==
    /\ pc = "idle"
    /\ pc' = "loop"
    /\ entry' = name
    /\ filters' = fs
    /\ items' = <<>>
    /\ itemPage' = <<>>
    /\ startAssetID' = 0
    /\ UNCHANGED <<requests, pageLog, filterLog, result, bodies, confVars,
                   hashVars>>

GetInventory == Enter("GetInventory", <<>>)

GetFilterableInventory == \E fs \in FilterLists : Enter("GetFilterableInventory", fs)

\* The loop returning what it has accumulated when a page fails.
LoopStepKeepsItems(r) ==
    IF r.panic THEN [pc |-> "panic", result |-> None, start |-> startAssetID]
    ELSE IF r.err # NoErr
    THEN [pc |-> "done", result |-> [items |-> items \o r.added, err |-> r.err],
          start |-> startAssetID]
    ELSE IF ~r.hasMore
    THEN [pc |-> "done", result |-> [items |-> items \o r.added, err |-> NoErr],
          start |-> startAssetID]
    ELSE [pc |-> "loop", result |-> None, start |-> r.lastAssetID]

\* An append that skips the items whose AssetID the slice already holds.
AccumulateUnique(old, added) ==
    old \o SelectSeq(added,
                     LAMBDA it : \A i \in 1..Len(old) : old[i].AssetID # it.AssetID)

\* *items after the appends of one fetchInventory call.
Accumulate(old, added) == old \o added

\* The loop without its "if !hasMore { break }".
LoopStepNoBreak(r) ==
    IF r.panic THEN [pc |-> "panic", result |-> None, start |-> startAssetID]
    ELSE IF r.err # NoErr
    THEN [pc |-> "done", result |-> [items |-> <<>>, err |-> r.err],
          start |-> startAssetID]
    ELSE [pc |-> "loop", result |-> None, start |-> r.lastAssetID]

\* What the loop of GetFilterableInventory does with fetchInventory's return.
LoopStep(r) ==
    IF r.panic THEN [pc |-> "panic", result |-> None, start |-> startAssetID]
    ELSE IF r.err # NoErr
    THEN [pc |-> "done", result |-> [items |-> <<>>, err |-> r.err],
          start |-> startAssetID]
    ELSE IF ~r.hasMore
    THEN [pc |-> "done",
          result |-> [items |-> Accumulate(items, r.added), err |-> NoErr],
          start |-> startAssetID]
    ELSE [pc |-> "loop", result |-> None, start |-> r.lastAssetID]

\* One iteration of the loop of GetFilterableInventory: one call of
\* fetchInventory, answered by one of `answers`.
FetchPage(answers, limit) ==
    /\ pc = "loop"
    /\ Len(requests) < limit
    /\ \E out \in answers :
         LET page == Len(requests) + 1
             r    == FetchInventoryResult(out, filters, page)
             s    == LoopStep(r)
         IN  /\ requests' = Append(requests, PageParams(startAssetID))
             /\ pageLog' = Append(pageLog, out)
             /\ bodies' = Append(bodies, InventoryBody(out.kind, r.err))
             /\ items' = Accumulate(items, r.added)
             /\ itemPage' = itemPage \o [i \in 1..Len(r.added) |-> page]
             /\ filterLog' = r.log
             /\ pc' = s.pc
             /\ result' = s.result
             /\ startAssetID' = s.start
    /\ UNCHANGED <<entry, filters, confVars, hashVars>>

Next ==
    \/ GetInventory
    \/ GetFilterableInventory
    \/ FetchPage(PagingAnswers, MaxPages)

Spec == Init /\ [][Next]_vars

NextMerge ==
    \/ GetInventory
    \/ GetFilterableInventory
    \/ FetchPage(MergeAnswers, MergePages)

SpecMerge == Init /\ [][NextMerge]_vars

\* An answer that ends the pagination: a fault, or a page without more items.
Terminal(a) ==
    \/ a.kind # "json"
    \/ a.Success = 0 /\ a.ErrorMsg # <<>>
    \/ a.HasMore = 0

\* The answers of PagingAnswers with a cursor that parses, one that parses to
\* zero or one that does not parse.
LiveAnswers ==
    {a \in PagingAnswers :
        a.kind = "json" => a.LastAssetID \in {<<"7">>, <<"0">>, <<"x">>}}

\* The loop against a server that ends the pagination with page MaxPages at
\* the latest.
FetchPageOrLast ==
    FetchPage(IF Len(requests) + 1 < MaxPages THEN LiveAnswers
              ELSE {a \in LiveAnswers : Terminal(a)},
              MaxPages)

NextLive ==
    \/ GetInventory
    \/ GetFilterableInventory
    \/ FetchPageOrLast

\* The loop is sequential and blocks only on the answer to its request: once
\* called it goes on whenever an answer is there.
SpecLive == Init /\ [][NextLive]_vars /\ WF_vars(FetchPageOrLast)

(***************************************************************************)
(* The state machine of the confirmation protocol: one call after the      *)
(* other on one session.  Every request to the time oracle reaches a later  *)
(* second of its clock.                                                    *)
(***************************************************************************)
Finish(c) ==
    /\ ncalls < MaxCalls
    /\ ncalls' = ncalls + 1
    /\ clock' = clock + Len(SelectSeq(c.steps, LAMBDA st : st = "time"))
    /\ earlier' = earlier \cup (IF call.gotTime THEN {call.timestamp} ELSE {})
    /\ call' = c
    /\ UNCHANGED <<invVars, hashVars>>

FetchConfirmations ==
    \E secret \in Secrets, ta \in TimeAnswers, a \in ConfAnswers :
        Finish(FetchConfirmationsCall(secret, ta, a, clock + 1))

AcceptConfirmation ==
    \E secret \in Secrets, ta \in TimeAnswers, a \in ConfAnswers :
        Finish(AcceptConfirmationCall(secret, ta, a, clock + 1))

SendConfirmationAjax ==
    \E c \in Confirmations, tag \in AjaxTags, is \in Secrets,
       ta \in TimeAnswers, a \in ConfAnswers :
        Finish(SendConfirmationAjaxCall(c, tag, is, ta, a, clock + 1))

NextConf ==
    \/ FetchConfirmations
    \/ AcceptConfirmation
    \/ SendConfirmationAjax

SpecConf == Init /\ [][NextConf]_vars

\* One session, used for an inventory call or for confirmation calls: the
\* pager and the confirmation client share no state.
NextSession ==
    \/ ncalls = 0 /\ Next
    \/ pc = "idle" /\ NextConf

SpecSession == Init /\ [][NextSession]_vars

(***************************************************************************)
(* Token derivations on their own.                                         *)
(***************************************************************************)
LongTag == [i \in 1..TagLimit |-> Alphabet[((i - 1) % 26) + 1]]

HashTags ==
    { <<>>, conf, accept, reject, LongTag, LongTag \o <<"y">>,
      LongTag \o <<"z">>, LongTag \o accept }

\* 0x0102030405060708
Stepped == [hi |-> 258, mid |-> 197637, lo |-> 395016]

HashTimes ==
    {Int64(n) : n \in {0, 1, 255, 256, 65536, FirstTime, 2147483647, -1}}
    \cup {MinInt64, MaxInt64, Stepped}

GenerateHash ==
    \E secret \in Secrets, tag \in HashTags, timestamp \in HashTimes :
        /\ hashIn' = [secret |-> secret, tag |-> tag, timestamp |-> timestamp,
                      made |-> TRUE]
        /\ hashOut' = generateConfirmationHashForTime(secret, tag, timestamp)
        /\ UNCHANGED <<invVars, confVars>>

NextHash == GenerateHash

SpecHash == Init /\ [][NextHash]_vars

(***************************************************************************)
(* Properties of the inventory pager.                                      *)
(***************************************************************************)
NPages == Len(pageLog)

LastPage == pageLog[NPages]

Returned == pc = "done"

\* A page that was decoded and reports success.
Successful(p) == p.kind = "json" /\ p.Success # 0

\* The value of a cursor string that is a number.
CursorValue(s) == ParseUint(s).val

\* C1: a call answered by N successful pages, of which exactly the last
\* declares no more items, has issued exactly N requests, the first without
\* start_assetid and each later request k with the last_assetid of page k-1
\* as its start_assetid.
C1_RequestsFollowCursors ==
    ( /\ Returned
      /\ result.err = NoErr
      /\ \A k \in 1..NPages : Successful(pageLog[k])
      /\ \A k \in 1..(NPages - 1) : pageLog[k].HasMore # 0
      /\ LastPage.HasMore = 0 )
    => /\ Len(requests) = NPages
       /\ ~requests[1].hasStart
       /\ \A k \in 2..NPages :
            /\ requests[k].hasStart
            /\ CursorValue(requests[k].start_assetid)
                 = CursorValue(pageLog[k - 1].LastAssetID)

\* C2: every request after the first is a follow-up request: it carries a
\* start cursor, which is not zero, and the follow-up page size.
C2_NoFollowUpFromStart ==
    \A k \in 2..Len(requests) :
        /\ requests[k].hasStart
        /\ CursorValue(requests[k].start_assetid) # 0
        /\ requests[k].count = CountNext

\* C3: a call whose last page reports success=0 with an empty error text
\* returns an empty item list and no error, whichever page that is.
C3_EmptyOnSilentFailure ==
    ( /\ Returned
      /\ LastPage.kind = "json"
      /\ LastPage.Success = 0
      /\ LastPage.ErrorMsg = <<>> )
    => result = [items |-> <<>>, err |-> NoErr]

\* The error a failing page makes the call return, NoErr for a page that
\* does not fail.
PageFault(p) ==
    IF p.kind \in {"transport", "redirect"}
    THEN [kind |-> "transport", text |-> <<>>]
    ELSE IF p.kind = "decode" THEN [kind |-> "decode", text |-> <<>>]
    ELSE IF p.Success = 0
    THEN IF p.ErrorMsg # <<>> THEN [kind |-> "domain", text |-> p.ErrorMsg]
         ELSE NoErr
    ELSE IF p.HasMore # 0 /\ ~ParseUint(p.LastAssetID).ok
    THEN ParseUint(p.LastAssetID).err
    ELSE NoErr

\* C4: a page that ends in a transport error, a decode error, success=0
\* with an error text, or more_items with an unusable last_assetid is the
\* last page requested; the call has returned that error (the server's text
\* for a success=0 page) and no item.
C4_FailStop ==
    \A k \in 1..NPages :
        PageFault(pageLog[k]) # NoErr
        => /\ k = NPages
           /\ Len(requests) = k
           /\ Returned
           /\ result = [items |-> <<>>, err |-> PageFault(pageLog[k])]

\* C4's case: a later page fails after earlier pages delivered items.
C4_Witness ==
    /\ Returned
    /\ NPages >= 2
    /\ items # <<>>
    /\ LastPage.kind = "json"
    /\ LastPage.Success # 0
    /\ LastPage.HasMore # 0
    /\ LastPage.LastAssetID = <<"7", "x">>
    /\ result.items = <<>>
    /\ result.err.kind = "syntax"

\* The positions, in the descriptions of a page, of the entries with the
\* class and instance of an item.
SameKey(descs, item) ==
    {j \in 1..Len(descs) :
        descs[j].ClassID = item.ClassID /\ descs[j].InstanceID = item.InstanceID}

\* C5: the description of every accumulated item is an entry of the page
\* that carried the item, with the item's class and instance; it is unset
\* exactly when that page has no such entry, and that raises no error.
C5_OwnPageDescription ==
    /\ \A i \in 1..Len(items) :
         LET descs == pageLog[itemPage[i]].Descriptions
             same  == SameKey(descs, items[i])
         IN  /\ same = {} <=> items[i].Desc = Nil
             /\ items[i].Desc # Nil
                => /\ items[i].Desc.page = itemPage[i]
                   /\ items[i].Desc.idx \in same
                   /\ \A j \in same : j <= items[i].Desc.idx
    /\ Returned => result = [items |-> items, err |-> NoErr]

\* C5's case: a returned list with an item without description and items
\* bound to the descriptions of two different pages under the same key.
C5_Witness ==
    /\ Returned
    /\ \E i, j, k \in 1..Len(result.items) :
         /\ result.items[i].Desc = Nil
         /\ result.items[j].Desc # Nil /\ result.items[j].Desc.page = 1
         /\ result.items[k].Desc # Nil /\ result.items[k].Desc.page = 2
         /\ result.items[j].ClassID = result.items[k].ClassID
         /\ result.items[j].InstanceID = result.items[k].InstanceID

\* The items of the last page before filtering.
Candidates ==
    [k \in 1..Len(LastPage.Assets) |->
        NewItem(LastPage.Assets[k], LastPage.Descriptions, NPages)]

Rejecting(item) == {j \in 1..Len(filters) : ~FilterAccepts(filters[j], item)}

Accepted(item) == Rejecting(item) = {}

\* The filters that may run on an item: all up to the first that rejects.
MayRun(item) ==
    {j \in 1..Len(filters) : \A r \in Rejecting(item) : j <= r}

Merged == pc \in {"loop", "done"} /\ NPages > 0 /\ Successful(LastPage)

\* C6: on every asset of a merged page the filters invoked are, in the
\* caller's order, exactly those up to the first that rejects, and the items
\* the page adds are exactly the assets that every filter accepts.
C6_FilterShortCircuit ==
    Merged
    => /\ Len(filterLog) = Len(LastPage.Assets)
       /\ \A k \in 1..Len(filterLog) :
            filterLog[k] = [j \in 1..Cardinality(MayRun(Candidates[k])) |-> j]
       /\ LET old == Cardinality({i \in 1..Len(items) : itemPage[i] < NPages})
          IN  SubSeq(items, old + 1, Len(items)) = SelectSeq(Candidates, Accepted)

\* C6's case: two filters, a page with an asset the first filter rejects and
\* an asset both accept.
C6_Witness ==
    /\ Merged
    /\ Len(filters) = 2
    /\ \E k \in 1..Len(filterLog) : filterLog[k] = <<1>>
    /\ \E k \in 1..Len(filterLog) : filterLog[k] = <<1, 2>> /\ Accepted(Candidates[k])

\* The items fetchInventory builds from page k. A response with success 0
\* is an empty inventory or a fault and has no assets to merge.
PageItems(k) ==
    LET p == pageLog[k] IN
    IF p.kind # "json" \/ p.Success = 0 THEN <<>>
    ELSE [i \in 1..Len(p.Assets) |-> NewItem(p.Assets[i], p.Descriptions, k)]

RECURSIVE AcceptedUpTo(_)
\* Pages 1..k in request order, each in response order, without the items
\* that some filter rejects.
AcceptedUpTo(k) ==
    IF k = 0 THEN <<>>
    ELSE AcceptedUpTo(k - 1) \o SelectSeq(PageItems(k), Accepted)

\* C14: the result of a successful call is the concatenation, in request
\* order, of each page's assets in response order restricted to those every
\* filter accepts; nothing is dropped, merged, reordered or deduplicated.
C14_ResultIsConcatenation ==
    (Returned /\ result.err = NoErr) => result.items = AcceptedUpTo(NPages)

\* C14's case: a result of two pages that holds the same AssetID from both
\* and leaves out an asset a filter rejected.
C14_Witness ==
    /\ Returned
    /\ result.err = NoErr
    /\ NPages = 2
    /\ \E i, j \in 1..Len(result.items) :
         /\ itemPage[i] = 1
         /\ itemPage[j] = 2
         /\ result.items[i].AssetID = result.items[j].AssetID
    /\ \E k \in 1..2 : \E i \in 1..Len(PageItems(k)) : ~Accepted(PageItems(k)[i])

\* A decoded page after which the loop has nothing left to ask for.
DeclaresEnd(p) == p.kind = "json" /\ p.HasMore = 0

\* The first page that declares no further items is the last page requested,
\* and the call has returned.
StopsAtEnd ==
    \A k \in 1..NPages :
        DeclaresEnd(pageLog[k])
        => /\ k = NPages
           /\ Len(requests) = k
           /\ Returned

\* C11: the loop stops at the first page that declares no further items and
\* issues no request after it; against a server that eventually answers
\* with such a page or a fault, every call returns.
C11_StopsAndTerminates ==
    /\ []StopsAtEnd
    /\ (pc = "loop") ~> (pc = "done")

\* C11's case: a call that returned on its third page, the first to declare
\* no further items.
C11_Witness ==
    /\ Returned
    /\ NPages = 3
    /\ DeclaresEnd(LastPage)
    /\ \A k \in 1..2 : Successful(pageLog[k]) /\ pageLog[k].HasMore # 0

\* C12: every page request carries either no start_assetid and count=250,
\* or a start_assetid and count=75.
C12_CountMatchesCursor ==
    \A k \in 1..Len(requests) :
        \/ ~requests[k].hasStart /\ requests[k].count = 250
                                 /\ requests[k].start_assetid = <<>>
        \/ requests[k].hasStart /\ requests[k].count = 75
                                /\ requests[k].start_assetid # <<>>

\* C12's case: a first request and a follow-up request.
C12_Witness ==
    /\ Len(requests) >= 2
    /\ ~requests[1].hasStart
    /\ requests[2].hasStart

(***************************************************************************)
(* Properties of the confirmation protocol.                                *)
(***************************************************************************)
\* The number big-endian bytes 5..8 of a hashed buffer encode, for a buffer
\* whose bytes 1..4 are zero.
BufferTime(data) ==
    ((data[5] * 256 + data[6]) * 256 + data[7]) * 256 + data[8]

\* The tag bytes of a hashed buffer.
BufferTag(data) == SubSeq(data, TimestampBytes + 1, Len(data))

TimeRequests(c) == Len(SelectSeq(c.steps, LAMBDA st : st = "time"))

\* C7: a FetchConfirmations or SendConfirmationAjax call that reaches the
\* hash has made exactly one request to the time oracle, before the hash;
\* the timestamp it hashes and sends is the oracle's answer to that request
\* (the oracle's clock now) and none that an earlier call obtained.
C7_FreshTimestamp ==
    ( /\ call.op \in {"FetchConfirmations", "SendConfirmationAjax"}
      /\ \E i \in 1..Len(call.steps) : call.steps[i] = "hash" )
    => /\ TimeRequests(call) = 1
       /\ call.steps[1] = "time"
       /\ call.steps[2] = "hash"
       /\ call.timestamp = clock
       /\ clock \notin earlier
       /\ call.hash.done
          => /\ call.hash.timestamp = clock
             /\ BufferTime(call.hash.token.data) = clock
             /\ \A i \in 1..4 : call.hash.token.data[i] = 0
       /\ call.req.sent
          => /\ call.req.t = FormatInt(clock)
             /\ call.req.k = call.hash.token
             /\ call.steps = <<"time", "hash", "get">>

\* C7's case: a decision sent after an earlier call obtained a timestamp.
C7_Witness ==
    /\ ncalls = 2
    /\ earlier # {}
    /\ call.op = "SendConfirmationAjax"
    /\ call.req.sent
    /\ call.result # NoResult

\* C8: SendConfirmationAjax sends allow for accept and cancel for reject,
\* and hashes the action's own tag, which is the tag it sends and not the
\* tag "conf" that FetchConfirmations hashes.
C8_ActionTag ==
    /\ ( /\ call.op = "SendConfirmationAjax"
         /\ call.req.sent
         /\ call.tag \in {accept, reject} )
       => /\ call.tag = accept => call.req.op = "allow"
          /\ call.tag = reject => call.req.op = "cancel"
          /\ call.hash.tag = call.tag
          /\ call.req.tag = call.tag
          /\ call.req.k = call.hash.token
          /\ BufferTag(call.hash.token.data)
               = (IF call.tag = accept THEN <<97, 99, 99, 101, 112, 116>>
                  ELSE <<114, 101, 106, 101, 99, 116>>)
    /\ (call.op = "FetchConfirmations" /\ call.req.sent)
       => /\ BufferTag(call.hash.token.data) = <<99, 111, 110, 102>>
          /\ call.req.tag = conf

\* C8's case: an accept that was sent.
C8_Witness ==
    /\ call.op = "SendConfirmationAjax"
    /\ call.tag = accept
    /\ call.req.sent
    /\ call.req.op = "allow"
    /\ call.result # NoResult

\* C17: a SendConfirmationAjax that has its timestamp and its token sends
\* its request whatever the tag is: with allow exactly when the tag is
\* "accept" and with cancel for every other tag, the caller's tag unchanged
\* as the tag of the hash and as the tag parameter of the request, and with
\* no error before the request is sent.
C17_AnyTagCancels ==
    (call.op = "SendConfirmationAjax" /\ call.hash.done)
    => /\ call.req.sent
       /\ call.req.op = "allow" <=> call.tag = accept
       /\ call.tag # accept => call.req.op = "cancel"
       /\ call.hash.tag = call.tag
       /\ call.req.tag = call.tag
       /\ call.err.kind # "request"

BadStatus(a) == a.kind = "http" /\ a.status # StatusOK

\* C9: a FetchConfirmations or SendConfirmationAjax call in which the time
\* oracle or the confirmation endpoint answers with a status other than 200
\* returns an error of its own kind, and no decoded body.
C9_StatusIsFault ==
    ( /\ call.op \in {"FetchConfirmations", "SendConfirmationAjax"}
      /\ BadStatus(call.timeAnswer) \/ BadStatus(call.answer) )
    => /\ call.err.kind = "status"
       /\ call.result = NoResult

\* C16: an AcceptConfirmation call is the FetchConfirmations call with the
\* same secret and the same answers: the same steps (one time request, the
\* hash for tag "conf", one GET of the confirmation list), the same request,
\* the same result and error; it sends no allow and no cancel.
C16_AcceptIsFetch ==
    call.op = "AcceptConfirmation"
    => /\ [call EXCEPT !.op = "FetchConfirmations"]
            = FetchConfirmationsCall(call.secret, call.timeAnswer, call.answer,
                                     clock)
       /\ \/ call.steps = <<"time">>
          \/ call.steps = <<"time", "hash">>
          \/ call.steps = <<"time", "hash", "get">>
       /\ call.hash.done => call.hash.tag = conf
       /\ call.req.op \notin {"allow", "cancel"}
       /\ call.req.sent => /\ call.req.endpoint = "mobileconf/getlist"
                           /\ call.req.tag = conf
                           /\ call.req.cid = ""

\* C16's case: an AcceptConfirmation that got the list.
C16_Witness ==
    /\ call.op = "AcceptConfirmation"
    /\ call.steps = <<"time", "hash", "get">>
    /\ call.req.sent
    /\ call.result.kind = "decoded"
    /\ call.err = NoErr

(***************************************************************************)
(* Properties of the response bodies.                                      *)
(***************************************************************************)
\* The client handed back a response with this answer.
HasResponse(kind) == kind # "transport"

Did(c, step) == \E i \in 1..Len(c.steps) : c.steps[i] = step

\* C15: when fetchInventory, getSteamTime, FetchConfirmations or
\* SendConfirmationAjax has returned, on whatever path, every response body
\* the client handed back to it is closed.
C15_BodiesClosed ==
    /\ Len(bodies) = NPages
    /\ \A k \in 1..NPages :
         HasResponse(pageLog[k].kind) => bodies[k].handed /\ bodies[k].closed
    /\ (Did(call, "time") /\ HasResponse(call.timeAnswer.kind))
       => call.bodies[1].handed /\ call.bodies[1].closed
    /\ (Did(call, "get") /\ HasResponse(call.answer.kind))
       => call.bodies[2].handed /\ call.bodies[2].closed

\* C15's case: a SendConfirmationAjax that returned the error of reading the
\* body of its response.
C15_Witness ==
    /\ call.op = "SendConfirmationAjax"
    /\ call.answer.kind = "http"
    /\ call.answer.body = "unreadable"
    /\ call.err.kind = "read"
    /\ Len(call.bodies) = 2
    /\ call.bodies[2].handed

(***************************************************************************)
(* Properties of the token derivation.                                     *)
(***************************************************************************)
\* C10: for a tag longer than 32 characters the derivation returns what it
\* returns for the tag's first 32 characters: it fails only on the secret,
\* and the hashed buffer holds the timestamp and those 32 characters.
C10_TagClipped ==
    (hashIn.made /\ Len(hashIn.tag) > 32)
    => LET prefix == SubSeq(hashIn.tag, 1, 32) IN
       /\ hashOut = generateConfirmationHashForTime(
                        hashIn.secret, prefix, hashIn.timestamp)
       /\ hashOut.err = NoErr <=> hashIn.secret \in {"c2VjcmV0", "a2V5"}
       /\ hashOut.err = NoErr
          => /\ Len(hashOut.token.data) = 8 + 32
             /\ BufferTag(hashOut.token.data) = TagBytes(prefix)

\* (timestamp >> bits) mod 256 for a multiple of 8 below 64, read off the
\* limb that holds those bits.
ShiftedByte(timestamp, bits) ==
    IF bits < 24 THEN (timestamp.lo \div (2 ^ bits)) % 256
    ELSE IF bits < 48 THEN (timestamp.mid \div (2 ^ (bits - 24))) % 256
    ELSE (timestamp.hi \div (2 ^ (bits - 48))) % 256

\* C13: the hashed buffer has length 8 + len(truncated tag); byte i of its
\* first eight is (timestamp >> (8*(7-i))) mod 256, the most significant
\* byte at offset 0, and the bytes from offset 8 on are the truncated tag's,
\* none for the empty tag.
C13_BufferLayout ==
    (hashIn.made /\ hashOut.err = NoErr)
    => LET data == hashOut.token.data
           tag  == IF Len(hashIn.tag) > 32 THEN SubSeq(hashIn.tag, 1, 32)
                   ELSE hashIn.tag
       IN  /\ Len(data) = 8 + Len(tag)
           /\ \A i \in 0..7 :
                 data[i + 1] = ShiftedByte(hashIn.timestamp, 8 * (7 - i))
           /\ \A j \in 1..Len(tag) : data[8 + j] = Ord(tag[j])
           /\ tag = <<>> => Len(data) = 8

\* C13's case: the buffer of timestamp 0x0102030405060708 and tag "conf".
C13_Witness ==
    /\ hashIn.made
    /\ hashIn.timestamp = Stepped
    /\ hashIn.tag = conf
    /\ hashOut.err = NoErr
    /\ hashOut.token.data = <<1, 2, 3, 4, 5, 6, 7, 8, 99, 111, 110, 102>>

\* C10's case: a token derived for a tag of 33 characters.
C10_Witness ==
    /\ hashIn.made
    /\ Len(hashIn.tag) = 33
    /\ hashOut.err = NoErr
    /\ Len(hashOut.token.data) = 40

=============================================================================
